---- MODULE Spec2Model ----
(***************************************************************************)
(* Model of JLinkUpdate (src/src/main.rs): the version codec, the          *)
(* installed-version probe, the system-info resolver and the sequential    *)
(* run of main.                                                            *)
(*                                                                         *)
(* Text that the code inspects character by character (version strings)    *)
(* is a sequence of code points, so that the byte arithmetic of the code   *)
(* ('a' + patch - 1) is arithmetic here too.  Text that the code only      *)
(* compares as a whole (OS names, package types) is a TLA+ string.         *)
(***************************************************************************)
EXTENDS Integers, Sequences, FiniteSets, TLC

VARIABLES
    pc,                     \* position of the run (or of the function under test)
    args,                   \* Args, as parsed from the command line
    host,                   \* std::env::consts::{OS, ARCH} of the build
    overflow_checks,        \* TRUE: integer overflow panics (debug profile); FALSE: it wraps
    system_info,            \* result of get_system_info
    latest_version,         \* text scraped from the vendor page
    latest_version_number,  \* version_string_to_number(latest_version)
    fs,                     \* files the OS's glob pattern matches, in enumeration order
    probe_system,           \* argument of get_current_installed_version
    current_version,        \* result of get_current_installed_version
    events,                 \* the steps of the run that have begun, in order
    result,                 \* what main returned, or its panic
    s_in,                   \* codec: the string handed to version_string_to_number
    n_in,                   \* codec: the integer handed to version_number_to_string
    decoded,                \* codec: version_string_to_number(s_in)
    partner,                \* codec: a second version string, compared with s_in
    partner_number,         \* codec: version_string_to_number(partner)
    encoded,                \* codec: version_number_to_string of decoded / n_in
    redecoded               \* codec: version_string_to_number(encoded)

vars == <<pc, args, host, overflow_checks, system_info, latest_version,
          latest_version_number, fs, probe_system, current_version, events, result,
          s_in, n_in, decoded, partner, partner_number, encoded, redecoded>>

mainVars  == <<args, host, system_info, latest_version, latest_version_number, events, result>>
probeVars == <<fs, probe_system, current_version>>
codecVars == <<s_in, n_in, decoded, partner, partner_number, encoded, redecoded>>

-----------------------------------------------------------------------------
(* Bounds of the model *)

\* longest arbitrary input string handed to version_string_to_number
MaxLen == 6
\* most digits of the major / minor number of an enumerated version string
MaxMajorDigits == 2
MaxMinorDigits == 3
\* most files the glob pattern matches
MaxFiles == 2

-----------------------------------------------------------------------------
(* Values *)

\* i32::MAX
I32_MAX == 2147483647

\* code points of the characters the code names
ASCII == [V |-> 86, v |-> 118, dot |-> 46, minus |-> 45, zero |-> 48, nine |-> 57,
          a |-> 97, z |-> 122]

\* Option / Result / panic outcomes
None      == [kind |-> "None"]
Some(x)   == [kind |-> "Some", val |-> x]
Ok(x)     == [kind |-> "Ok", val |-> x]
Err(m)    == [kind |-> "Err", msg |-> m]
Panic(m)  == [kind |-> "Panic", msg |-> m]
Unset     == [kind |-> "Unset"]

-----------------------------------------------------------------------------
(* i32 arithmetic.  TLC's integers are 32 bits wide as well, so every sum  *)
(* and product is split before it is formed.                               *)

\* x + y overflows i32, for 0 <= x, y
add_overflows(x, y) == y > I32_MAX - x
\* i32::wrapping_add, for any x, y of i32
wrapping_add(x, y) ==
    IF x >= 0 /\ y >= 0 /\ y > I32_MAX - x
    THEN ((x - I32_MAX) - 1) + ((y - I32_MAX) - 1)
    ELSE IF x < 0 /\ y < 0 /\ y < ((0 - I32_MAX) - 1) - x
    THEN ((x + I32_MAX) + 1) + ((y + I32_MAX) + 1)
    ELSE x + y

\* x * k for 0 <= x <= I32_MAX and 0 < k < 2^15
mul_overflows(x, k) == x > I32_MAX \div k
wrapping_mul(x, k) ==
    LET xh   == x \div 65536
        xl   == x % 65536
        lo   == xl * k
        top  == (((xh * k) % 65536) + (lo \div 65536)) % 65536
        bot  == lo % 65536
    IN  IF top >= 32768 THEN (top - 65536) * 65536 + bot ELSE top * 65536 + bot

-----------------------------------------------------------------------------
(* str::parse::<i32> and i32::to_string *)

IsDigit(c) == c \in ASCII.zero .. ASCII.nine
IsLower(c) == c \in ASCII.a .. ASCII.z

RECURSIVE parse_digits(_, _, _)
\* digits s[i..], accumulated left to right with checked arithmetic
parse_digits(s, i, acc) ==
    IF i > Len(s) THEN Ok(acc)
    ELSE LET d == s[i] - ASCII.zero IN
         IF acc > (I32_MAX - d) \div 10 THEN Err("number too large to fit in target type")
         ELSE parse_digits(s, i + 1, acc * 10 + d)

\* parse::<i32> of a string of ASCII digits (the only strings the code parses)
parse_i32(s) ==
    IF s = <<>> THEN Err("cannot parse integer from empty string")
    ELSE IF \E i \in 1..Len(s) : ~IsDigit(s[i]) THEN Err("invalid digit found in string")
    ELSE parse_digits(s, 1, 0)

RECURSIVE nat_to_string(_)
nat_to_string(n) ==
    IF n < 10 THEN <<ASCII.zero + n>>
    ELSE Append(nat_to_string(n \div 10), ASCII.zero + (n % 10))

\* i32::to_string
to_string(n) ==
    IF n >= 0 THEN nat_to_string(n)
    ELSE IF n = (0 - I32_MAX) - 1 THEN <<45, 50, 49, 52, 55, 52, 56, 51, 54, 52, 56>>
    ELSE <<ASCII.minus>> \o nat_to_string(0 - n)

-----------------------------------------------------------------------------
(* version_number_to_string *)

\* a slip in the letter offset: 'a' + patch
patch_str_off_by_one(patch, oc) ==
    IF patch = 0 THEN Ok(<<>>)
    ELSE LET b == ASCII.a + (patch % 256) IN
         IF b <= 255 THEN Ok(<<b>>)
         ELSE IF oc THEN Panic("attempt to add with overflow") ELSE Ok(<<b - 256>>)

\* the patch letter: "" for 0, else (b'a' + (patch - 1) as u8) as char
patch_str(patch, oc) ==
    IF patch = 0 THEN Ok(<<>>)
    ELSE LET b == ASCII.a + ((patch - 1) % 256) IN
         IF b <= 255 THEN Ok(<<b>>)
         ELSE IF oc THEN Panic("attempt to add with overflow") ELSE Ok(<<b - 256>>)

version_number_to_string(version, oc) ==
    LET version_str == to_string(version) IN
    IF Len(version_str) < 3 THEN Panic("byte index out of range")
    ELSE LET major == SubSeq(version_str, 1, 1)
             minor == SubSeq(version_str, 2, 3)
             rest  == parse_i32(SubSeq(version_str, 4, Len(version_str)))
             patch == IF rest.kind = "Ok" THEN rest.val ELSE 0
             ps    == patch_str(patch, oc)
         IN  IF ps.kind = "Panic" THEN ps
             ELSE Ok(<<ASCII.V>> \o major \o <<ASCII.dot>> \o minor \o ps.val)

-----------------------------------------------------------------------------
(* version_string_to_number *)

RECURSIVE digit_run_end(_, _)
\* the index just past the longest run of digits that starts at i (greedy \d+)
digit_run_end(s, i) ==
    IF i <= Len(s) /\ IsDigit(s[i]) THEN digit_run_end(s, i + 1) ELSE i

NoMatch == [matched |-> FALSE]

\* [vV](\d+)\.(\d+)([a-z])? tried at start position i (the inputs of the model are
\* ASCII, where \d is 0-9)
match_at(s, i) ==
    IF i > Len(s) \/ s[i] \notin {ASCII.V, ASCII.v} THEN NoMatch
    ELSE LET j == digit_run_end(s, i + 1) IN
         IF j = i + 1 \/ j > Len(s) \/ s[j] # ASCII.dot THEN NoMatch
         ELSE LET k == digit_run_end(s, j + 1) IN
              IF k = j + 1 THEN NoMatch
              ELSE [matched |-> TRUE,
                    g1 |-> SubSeq(s, i + 1, j - 1),
                    g2 |-> SubSeq(s, j + 1, k - 1),
                    g3 |-> IF k <= Len(s) /\ IsLower(s[k]) THEN <<s[k]>> ELSE <<>>]

RECURSIVE captures_from(_, _)
\* Regex::captures: the leftmost match, searched from position i on
captures_from(s, i) ==
    IF i > Len(s) THEN NoMatch
    ELSE LET m == match_at(s, i) IN
         IF m.matched THEN m ELSE captures_from(s, i + 1)

captures(s) == captures_from(s, 1)

\* a slip in the weight of the minor number
encode_minor_times_ten(major, minor, patch, oc) ==
    Some(major * 10000 + minor * 10 + patch)

\* major * 10000 + minor * 100 + patch in i32
encode_number(major, minor, patch, oc) ==
    LET ovf == \/ mul_overflows(major, 10000)
               \/ mul_overflows(minor, 100)
               \/ add_overflows(major * 10000, minor * 100)
               \/ add_overflows(major * 10000 + minor * 100, patch)
    IN  IF ~ovf THEN Some(major * 10000 + minor * 100 + patch)
        ELSE IF oc THEN Panic("attempt to multiply or add with overflow")
        ELSE Some(wrapping_add(wrapping_add(wrapping_mul(major, 10000),
                                            wrapping_mul(minor, 100)), patch))

version_string_to_number(version, oc) ==
    LET caps == captures(version) IN
    IF ~caps.matched THEN None
    ELSE LET major == parse_i32(caps.g1)
             minor == parse_i32(caps.g2)
         IN  IF major.kind # "Ok" \/ minor.kind # "Ok" THEN None
             ELSE LET patch == IF caps.g3 = <<>> THEN 0
                               ELSE caps.g3[1] - ASCII.a + 1
                  IN  encode_number(major.val, minor.val, patch, oc)

-----------------------------------------------------------------------------
(* get_current_installed_version *)

\* the glob patterns searched for the OS; <<>> stands for the early return
dll_paths(system) ==
    CASE system = "Linux"   -> <<"/opt/SEGGER/JLink*/libjlink*">>
      [] system = "Windows" -> <<"C:\\Program Files*\\SEGGER\\JLink*\\JLink*.dll">>
      [] system = "MacOSX"  -> <<"/Applications/SEGGER/JLink*/libjlink*">>
      [] OTHER              -> <<>>

RECURSIVE probe_files(_, _)
\* the inner loop over the matches: the first file that loads decides
probe_files(files, i) ==
    IF i > Len(files) THEN None
    ELSE IF files[i].loads
         THEN IF files[i].symbol THEN Some(files[i].ret)   \* return Some(func())
              ELSE None                                     \* lib.get(..).ok()?
    ELSE probe_files(files, i + 1)

\* files: what glob::glob yields for the OS's one pattern, unreadable entries left out
get_current_installed_version(system, files) ==
    IF dll_paths(system) = <<>> THEN None
    ELSE probe_files(files, 1)

-----------------------------------------------------------------------------
(* get_system_info *)

\* str::to_lowercase on the architecture names of the model
to_lowercase(s) ==
    CASE s = "AMD64"   -> "amd64"
      [] s = "AArch64" -> "aarch64"
      [] OTHER         -> s

\* a slip in the synonym table: aarch64 is left as it is
normalize_arch_without_aarch64(arch) ==
    IF to_lowercase(arch) = "amd64" THEN "x86_64" ELSE arch

\* the match on arch.to_lowercase()
normalize_arch(arch) ==
    CASE to_lowercase(arch) = "aarch64" -> "arm64"
      [] to_lowercase(arch) = "amd64"   -> "x86_64"
      [] OTHER                          -> arch

\* h.arch = "x86_64" is also cfg!(target_arch = "x86_64"): both name the build's target
get_system_info(a, h) ==
    LET system == IF a.system = "auto" THEN h.os ELSE a.system
        own    == IF a.arch = "auto" THEN h.arch ELSE a.arch
        win    == IF a.arch = "auto"
                  THEN (IF h.arch = "x86_64" THEN "x86_64" ELSE "")
                  ELSE a.arch
        row    == CASE system = "linux"   -> <<own, "Linux", "deb", "sudo dpkg -i">>
                    [] system = "macos"   -> <<"universal", "MacOSX", "pkg",
                                               "sudo installer -target / -pkg">>
                    [] system = "windows" -> <<win, "Windows", "exe", "">>
                    [] OTHER              -> <<>>
    IN  IF row = <<>> THEN Err("Unsupported system")
        ELSE Ok([arch                |-> normalize_arch(row[1]),
                 system              |-> row[2],
                 package_type        |-> row[3],
                 package_install_cmd |-> IF a.package_install_cmd # "auto"
                                         THEN a.package_install_cmd ELSE row[4]])

-----------------------------------------------------------------------------
(* main *)

\* str::split_whitespace on the install commands of the model
split_whitespace(cmd) ==
    CASE cmd = "sudo dpkg -i"                  -> <<"sudo", "dpkg", "-i">>
      [] cmd = "sudo installer -target / -pkg" -> <<"sudo", "installer", "-target", "/", "-pkg">>
      [] cmd = "rpm -i"                        -> <<"rpm", "-i">>
      [] cmd \in {"", " "}                     -> <<>>
      [] OTHER                                 -> <<cmd>>

\* a slip in the statement order: the probe runs right after get_system_info
after_probe_first(step) ==
    CASE step = "resolve"  -> "probe"
      [] step = "probe"    -> "fetch"
      [] step = "fetch"    -> "parse"
      [] step = "parse"    -> "compare"
      [] step = "compare"  -> "download"
      [] step = "download" -> "install"
      [] step = "install"  -> "exit"

\* the statement order of main
after(step) ==
    CASE step = "resolve"  -> "fetch"
      [] step = "fetch"    -> "parse"
      [] step = "parse"    -> "probe"
      [] step = "probe"    -> "compare"
      [] step = "compare"  -> "download"
      [] step = "download" -> "install"
      [] step = "install"  -> "exit"

-----------------------------------------------------------------------------
(* Inputs of the codec *)

\* characters of the enumerated inputs
DigitChars  == {48, 49}            \* '0', '1'
LetterChars == {97, 122}           \* 'a', 'z'
AnyChars    == {86, 49, 46, 97}    \* 'V', '1', '.', 'a'

DigitStrings(n) == UNION {[1..k -> DigitChars] : k \in 1..n}

\* every string of the grammar [vV]<digits>.<digits>[<letter>] within the bounds
GrammarStrings ==
    {<<l>> \o ma \o <<ASCII.dot>> \o mi \o suf :
        l \in {ASCII.V, ASCII.v},
        ma \in DigitStrings(MaxMajorDigits),
        mi \in DigitStrings(MaxMinorDigits),
        suf \in {<<>>} \cup {<<c>> : c \in LetterChars}}

\* every string over AnyChars up to MaxLen characters
AnyStrings == UNION {[1..k -> AnyChars] : k \in 0..MaxLen}

\* the strings of the documentation and their neighbours
SampleStrings == {
    <<86, 55, 46, 57, 52>>,                                      \* "V7.94"
    <<86, 55, 46, 57, 52, 97>>,                                  \* "V7.94a"
    <<86, 55, 46, 57, 53>>,                                      \* "V7.95"
    <<118, 55, 46, 57, 52, 97>>,                                 \* "v7.94a"
    <<86, 55, 46, 57, 52, 122>>,                                 \* "V7.94z"
    <<86, 56, 46, 48, 48>>,                                      \* "V8.00"
    <<86, 55, 46, 49, 48, 48>>,                                  \* "V7.100"
    <<86, 49, 48, 46, 48, 53>>,                                  \* "V10.05"
    <<86, 55, 46, 57, 52, 97, 97>>,                              \* "V7.94aa"
    <<98, 97, 110, 97, 110, 97>>,                                \* "banana"
    <<55, 46, 57, 52>>,                                          \* "7.94"
    <<86, 55, 57, 52>>,                                          \* "V794"
    <<120, 86, 55, 46, 57, 52>>                                  \* "xV7.94"
    }

\* strings at the edge of i32
BoundaryStrings == {
    <<86, 50, 49, 52, 55, 52, 55, 46, 57, 57, 122>>,             \* "V214747.99z"
    <<86, 50, 49, 52, 55, 52, 56, 46, 51, 55>>,                  \* "V214748.37"
    <<86, 55, 46, 50, 49, 52, 55, 52, 56, 51, 55>>,              \* "V7.21474837"
    <<86, 50, 49, 52, 55, 52, 56, 51, 54, 52, 56, 46, 48, 48>>   \* "V2147483648.00"
    }

\* integers handed to version_number_to_string (any i32 is a possible argument)
VersionCodes == {0, 5, 99, 100, 79400, 79401, 79426, 79427, 79499, 81000,
                 100500, 794160, 2147483647, 0 - 1, 0 - 100, 0 - 79401}

-----------------------------------------------------------------------------
(* SpecCodec: the two codec functions applied to bounded inputs *)

InitCodec ==
    /\ overflow_checks \in BOOLEAN
    /\ \/ pc = "str" /\ s_in \in SampleStrings /\ n_in = 0
       \/ pc = "str" /\ s_in \in GrammarStrings /\ n_in = 0
       \/ pc = "str" /\ s_in \in AnyStrings /\ n_in = 0
       \/ pc = "str" /\ s_in \in BoundaryStrings /\ n_in = 0
       \/ pc = "num" /\ n_in \in VersionCodes /\ s_in = <<>>
    /\ decoded = Unset /\ encoded = Unset /\ redecoded = Unset
    /\ partner = <<>> /\ partner_number = Unset
    /\ args = Unset /\ host = Unset /\ system_info = Unset
    /\ latest_version = <<>> /\ latest_version_number = Unset
    /\ fs = <<>> /\ probe_system = "" /\ current_version = Unset
    /\ events = <<>> /\ result = Unset

\* version_string_to_number(s_in)
Decode ==
    /\ pc = "str"
    /\ decoded' = version_string_to_number(s_in, overflow_checks)
    /\ pc' = "decoded"
    /\ UNCHANGED <<overflow_checks, s_in, n_in, partner, partner_number, encoded, redecoded,
                   mainVars, probeVars>>

\* version_string_to_number of a second string
DecodePartner ==
    /\ pc = "decoded"
    /\ decoded.kind = "Some"
    /\ partner' \in {s \in SampleStrings : captures(s).matched}
    /\ partner_number' = version_string_to_number(partner', overflow_checks)
    /\ pc' = "compared"
    /\ UNCHANGED <<overflow_checks, s_in, n_in, decoded, encoded, redecoded, mainVars, probeVars>>

\* version_number_to_string of the decoded number, when there is one
EncodeDecoded ==
    /\ pc = "decoded"
    /\ encoded' = IF decoded.kind = "Some"
                  THEN version_number_to_string(decoded.val, overflow_checks)
                  ELSE decoded
    /\ pc' = "encoded"
    /\ UNCHANGED <<overflow_checks, s_in, n_in, decoded, partner, partner_number, redecoded,
                   mainVars, probeVars>>

\* version_string_to_number of the encoded string
Redecode ==
    /\ pc = "encoded"
    /\ encoded.kind = "Ok"
    /\ redecoded' = version_string_to_number(encoded.val, overflow_checks)
    /\ pc' = "redecoded"
    /\ UNCHANGED <<overflow_checks, s_in, n_in, decoded, partner, partner_number, encoded,
                   mainVars, probeVars>>

\* version_number_to_string(n_in)
EncodeNumber ==
    /\ pc = "num"
    /\ encoded' = version_number_to_string(n_in, overflow_checks)
    /\ pc' = "num_encoded"
    /\ UNCHANGED <<overflow_checks, s_in, n_in, decoded, partner, partner_number, redecoded,
                   mainVars, probeVars>>

\* version_string_to_number of the string encoded from n_in
DecodeEncoded ==
    /\ pc = "num_encoded"
    /\ encoded.kind = "Ok"
    /\ redecoded' = version_string_to_number(encoded.val, overflow_checks)
    /\ pc' = "num_redecoded"
    /\ UNCHANGED <<overflow_checks, s_in, n_in, decoded, partner, partner_number, encoded,
                   mainVars, probeVars>>

NextCodec == Decode \/ DecodePartner \/ EncodeDecoded \/ Redecode \/ EncodeNumber \/ DecodeEncoded

SpecCodec == InitCodec /\ [][NextCodec]_vars

-----------------------------------------------------------------------------
(* Inputs of the resolver, the probe and the run *)

ClapArch        == {"auto", "x86_64", "i386", "arm", "arm64", "universal"}
ClapSystem      == {"auto", "Linux", "MacOSX", "Windows"}
ClapPackageType == {"auto", "deb", "rpm", "tgz", "pkg", "exe"}

\* std::env::consts::OS and ARCH of some targets
Hosts == [os : {"linux", "macos", "windows", "freebsd"}, arch : {"x86_64", "aarch64", "x86"}]

\* Args as clap parses them
ArgsClap ==
    [install             : {TRUE},
     arch                : ClapArch,
     system              : ClapSystem,
     package_type        : ClapPackageType,
     package_install_cmd : {"auto", "rpm -i"}]

\* Args as get_system_info may be handed them: clap's values, and a few clap refuses
ArgsAny ==
    [install             : {TRUE},
     arch                : ClapArch \cup {"aarch64", "amd64", "AMD64"},
     system              : ClapSystem \cup {"BeOS"},
     package_type        : ClapPackageType,
     package_install_cmd : {"auto", "rpm -i"}]

\* Args of the runs of main: values clap accepts
ArgsMain ==
    [install             : BOOLEAN,
     arch                : {"auto", "arm64"},
     system              : {"auto", "Linux"},
     package_type        : {"auto", "rpm"},
     package_install_cmd : {"auto", ""}]

HostsMain == {h \in Hosts : h.arch # "x86"}

\* what JLINK_GetDLLVersion of a matched library may return
ProbeValues == {5, 79400, 79401, 100500}

\* a matched file: whether Library::new loads it, whether it exports the symbol, what the call returns
Files ==
    {[loads |-> FALSE, symbol |-> FALSE, ret |-> 0],
     [loads |-> TRUE, symbol |-> FALSE, ret |-> 0]}
    \cup {[loads |-> TRUE, symbol |-> TRUE, ret |-> v] : v \in ProbeValues}

FileLists == UNION {[1..k -> Files] : k \in 0..MaxFiles}

\* the text of the first option of the vendor page's version selector
LatestTexts == {
    <<86, 55, 46, 57, 52>>,          \* "V7.94"
    <<86, 55, 46, 57, 52, 97>>,      \* "V7.94a"
    <<86, 55, 46, 57, 53>>,          \* "V7.95"
    <<98, 97, 110, 97, 110, 97>>     \* "banana"
    }

-----------------------------------------------------------------------------
(* SpecSys: get_system_info applied to bounded Args on bounded hosts *)

InitSys ==
    /\ pc = "call"
    /\ args \in ArgsClap \/ args \in ArgsAny
    /\ host \in Hosts
    /\ overflow_checks = FALSE
    /\ system_info = Unset
    /\ latest_version = <<>> /\ latest_version_number = Unset
    /\ fs = <<>> /\ probe_system = "" /\ current_version = Unset
    /\ events = <<>> /\ result = Unset
    /\ s_in = <<>> /\ n_in = 0
    /\ decoded = Unset /\ encoded = Unset /\ redecoded = Unset
    /\ partner = <<>> /\ partner_number = Unset

CallGetSystemInfo ==
    /\ pc = "call"
    /\ system_info' = get_system_info(args, host)
    /\ pc' = "returned"
    /\ UNCHANGED <<args, host, overflow_checks, latest_version, latest_version_number,
                   events, result, probeVars, codecVars>>

NextSys == CallGetSystemInfo

SpecSys == InitSys /\ [][NextSys]_vars

-----------------------------------------------------------------------------
(* SpecProbe: get_current_installed_version on bounded file systems *)

InitProbe ==
    /\ pc = "call"
    /\ probe_system \in {"Linux", "Windows", "MacOSX", "BeOS"}
    /\ fs \in FileLists
    /\ current_version = Unset
    /\ overflow_checks = FALSE
    /\ args = Unset /\ host = Unset /\ system_info = Unset
    /\ latest_version = <<>> /\ latest_version_number = Unset
    /\ events = <<>> /\ result = Unset
    /\ s_in = <<>> /\ n_in = 0
    /\ decoded = Unset /\ encoded = Unset /\ redecoded = Unset
    /\ partner = <<>> /\ partner_number = Unset

CallProbe ==
    /\ pc = "call"
    /\ current_version' = get_current_installed_version(probe_system, fs)
    /\ pc' = "returned"
    /\ UNCHANGED <<fs, probe_system, overflow_checks, mainVars, codecVars>>

NextProbe == CallProbe

SpecProbe == InitProbe /\ [][NextProbe]_vars

-----------------------------------------------------------------------------
(* Spec: a run of main *)

Init ==
    /\ pc = "resolve"
    /\ args \in ArgsMain /\ host \in HostsMain
    /\ overflow_checks \in BOOLEAN
    /\ system_info = Unset
    /\ latest_version = <<>> /\ latest_version_number = Unset
    /\ fs = <<>> /\ probe_system = "" /\ current_version = Unset
    /\ events = <<>> /\ result = Unset
    /\ s_in = <<>> /\ n_in = 0
    /\ decoded = Unset /\ encoded = Unset /\ redecoded = Unset
    /\ partner = <<>> /\ partner_number = Unset

\* let system_info = get_system_info(&args)?
ResolveSystemInfo ==
    /\ pc = "resolve"
    /\ events' = Append(events, "resolve")
    /\ system_info' = get_system_info(args, host)
    /\ IF system_info'.kind = "Err"
       THEN pc' = "exit" /\ result' = system_info'
       ELSE pc' = after("resolve") /\ UNCHANGED result
    /\ UNCHANGED <<args, host, overflow_checks, latest_version, latest_version_number,
                   probeVars, codecVars>>

\* the GET of the download page and the scrape of its first version option
FetchLatest ==
    /\ pc = "fetch"
    /\ events' = Append(events, "fetch")
    /\ \/ /\ \E e \in {"error sending request", "Could not find version selector",
                       "Could not find latest version", "Version text not found"} :
                result' = Err(e)
          /\ pc' = "exit"
          /\ UNCHANGED latest_version
       \/ /\ latest_version' \in LatestTexts
          /\ pc' = after("fetch")
          /\ UNCHANGED result
    /\ UNCHANGED <<args, host, overflow_checks, system_info, latest_version_number,
                   probeVars, codecVars>>

\* version_string_to_number(&latest_version).ok_or(..)?
ParseLatest ==
    /\ pc = "parse"
    /\ events' = Append(events, "parse")
    /\ LET n == version_string_to_number(latest_version, overflow_checks) IN
       CASE n.kind = "Some"  -> /\ latest_version_number' = n
                                /\ pc' = after("parse")
                                /\ UNCHANGED result
         [] n.kind = "None"  -> /\ result' = Err("Could not parse latest version number")
                                /\ pc' = "exit"
                                /\ UNCHANGED latest_version_number
         [] n.kind = "Panic" -> /\ result' = n
                                /\ pc' = "exit"
                                /\ UNCHANGED latest_version_number
    /\ UNCHANGED <<args, host, overflow_checks, system_info, latest_version,
                   probeVars, codecVars>>

\* get_current_installed_version(&system_info.system)
ProbeInstalled ==
    /\ pc = "probe"
    /\ events' = Append(events, "probe")
    /\ fs' \in FileLists
    /\ probe_system' = system_info.val.system
    /\ current_version' = get_current_installed_version(probe_system', fs')
    /\ pc' = after("probe")
    /\ UNCHANGED <<args, host, overflow_checks, system_info, latest_version,
                   latest_version_number, result, codecVars>>

\* the report of the installed version and the comparison with the latest
CompareVersions ==
    /\ pc = "compare"
    /\ events' = Append(events, "compare")
    /\ IF current_version.kind = "Some"
       THEN LET shown == version_number_to_string(current_version.val, overflow_checks) IN
            IF shown.kind = "Panic"
            THEN pc' = "exit" /\ result' = shown
            ELSE IF latest_version_number.kind = "Some"
                    /\ current_version.val >= latest_version_number.val
            THEN pc' = "exit" /\ result' = Ok("Already on latest version.")
            ELSE pc' = after("compare") /\ UNCHANGED result
       ELSE pc' = after("compare") /\ UNCHANGED result
    /\ UNCHANGED <<args, host, overflow_checks, system_info, latest_version,
                   latest_version_number, probeVars, codecVars>>

\* the POST for the package file and the write of its bytes
Download ==
    /\ pc = "download"
    /\ events' = Append(events, "download")
    /\ \/ /\ \E e \in {"error sending request", "Got status code", "file error"} :
                result' = Err(e)
          /\ pc' = "exit"
       \/ /\ pc' = after("download")
          /\ UNCHANGED result
    /\ UNCHANGED <<args, host, overflow_checks, system_info, latest_version,
                   latest_version_number, probeVars, codecVars>>

\* if args.install { run the installer }; println!("Success")
Install ==
    /\ pc = "install"
    /\ pc' = "exit"
    /\ IF ~args.install
       THEN result' = Ok("Success") /\ UNCHANGED events
       ELSE /\ events' = Append(events, "install")
            /\ IF host.os # "windows"
                  /\ split_whitespace(system_info.val.package_install_cmd) = <<>>
               THEN result' = Panic("index out of bounds")
               ELSE \E r \in {Err("io error"), Err("Installation failed"), Ok("Success")} :
                       result' = r
    /\ UNCHANGED <<args, host, overflow_checks, system_info, latest_version,
                   latest_version_number, probeVars, codecVars>>

Next ==
    \/ ResolveSystemInfo
    \/ FetchLatest
    \/ ParseLatest
    \/ ProbeInstalled
    \/ CompareVersions
    \/ Download
    \/ Install

Spec == Init /\ [][Next]_vars

-----------------------------------------------------------------------------
(* The codec's claims *)

\* the whole of s is [vV]<digits>.<digits>[<single lowercase letter>]
MatchesGrammar(s) ==
    /\ Len(s) >= 4
    /\ s[1] \in {ASCII.V, ASCII.v}
    /\ LET e == IF IsLower(s[Len(s)]) THEN Len(s) - 1 ELSE Len(s) IN
       \E j \in 3..(e - 1) :
          /\ s[j] = ASCII.dot
          /\ \A i \in (2..(j - 1)) \cup ((j + 1)..e) : IsDigit(s[i])

\* the fields of a string of the grammar, as text
DotAt(s)       == CHOOSE j \in 1..Len(s) : s[j] = ASCII.dot
MajorDigits(s) == SubSeq(s, 2, DotAt(s) - 1)
MinorDigits(s) == SubSeq(s, DotAt(s) + 1, IF IsLower(s[Len(s)]) THEN Len(s) - 1 ELSE Len(s))
PatchOf(s)     == IF IsLower(s[Len(s)]) THEN s[Len(s)] - ASCII.a + 1 ELSE 0

\* s with an upper-case leading "V"
Normalize(s) == [s EXCEPT ![1] = ASCII.V]

RECURSIVE StripZeros(_)
StripZeros(d) == IF Len(d) > 1 /\ d[1] = ASCII.zero THEN StripZeros(Tail(d)) ELSE d

\* numerals compared as numbers, whatever their length
NumLess(d1, d2) ==
    LET x == StripZeros(d1)
        y == StripZeros(d2)
    IN  \/ Len(x) < Len(y)
        \/ /\ Len(x) = Len(y)
           /\ \E i \in 1..Len(x) : x[i] < y[i] /\ \A k \in 1..(i - 1) : x[k] = y[k]
NumEq(d1, d2) == StripZeros(d1) = StripZeros(d2)

\* a precedes b in release order: by major, then minor, then patch letter
Precedes(a, b) ==
    \/ NumLess(MajorDigits(a), MajorDigits(b))
    \/ /\ NumEq(MajorDigits(a), MajorDigits(b))
       /\ \/ NumLess(MinorDigits(a), MinorDigits(b))
          \/ NumEq(MinorDigits(a), MinorDigits(b)) /\ PatchOf(a) < PatchOf(b)

\* one major digit 1..9 and exactly two minor digits: the form the integer reserves room for
NarrowForm(s) ==
    /\ MatchesGrammar(s)
    /\ Len(MajorDigits(s)) = 1 /\ MajorDigits(s)[1] # ASCII.zero
    /\ Len(MinorDigits(s)) = 2

\* minor below 100 and major at most 214747: the numbers the i32 encoding keeps apart
InRange(s) ==
    /\ MatchesGrammar(s)
    /\ NumLess(MinorDigits(s), <<49, 48, 48>>)
    /\ NumLess(MajorDigits(s), <<50, 49, 52, 55, 52, 56>>)

\* the strings a decoded string is compared with
Partners == {s \in GrammarStrings \cup SampleStrings \cup BoundaryStrings : MatchesGrammar(s)}
PartnersInRange == {s \in Partners : InRange(s)}

\* C2 as stated: every string of the grammar encodes back to its normal form,
\* and the number it decodes to survives encoding and decoding.
C2_RoundTripAnyGrammar ==
    (pc \in {"encoded", "redecoded"} /\ MatchesGrammar(s_in)) =>
        /\ decoded.kind = "Some"
        /\ encoded = Ok(Normalize(s_in))
        /\ pc = "redecoded" => redecoded = decoded

\* C2 amended: a string with one non-zero major digit and exactly two minor digits
\* encodes back to its normal form, and its number survives encoding and decoding.
C2_RoundTripNarrow ==
    (pc \in {"encoded", "redecoded"} /\ NarrowForm(s_in)) =>
        /\ decoded.kind = "Some"
        /\ encoded = Ok(Normalize(s_in))
        /\ pc = "redecoded" => redecoded = decoded

\* "v7.94a" has been decoded, encoded to "V7.94a" and decoded again
C2_Witness ==
    /\ pc = "redecoded"
    /\ s_in = <<118, 55, 46, 57, 52, 97>>
    /\ decoded = Some(79401)
    /\ encoded = Ok(<<86, 55, 46, 57, 52, 97>>)
    /\ redecoded = Some(79401)

\* the numbers of a and b are in the order a before b
NumbersAscend(na, nb) == na.kind = "Some" /\ nb.kind = "Some" /\ na.val < nb.val

\* C3 as stated: release order of any two strings of the grammar is the order
\* of their numbers.
C3_MonotonicAnyGrammar ==
    (pc = "compared" /\ MatchesGrammar(s_in) /\ MatchesGrammar(partner)) =>
        /\ Precedes(s_in, partner) => NumbersAscend(decoded, partner_number)
        /\ Precedes(partner, s_in) => NumbersAscend(partner_number, decoded)

\* C3 amended: release order is the order of the numbers for any two strings
\* of the grammar whose minor is below 100 and whose major is at most 214747.
C3_MonotonicInRange ==
    /\ (pc = "compared" /\ InRange(s_in) /\ InRange(partner)) =>
          /\ Precedes(s_in, partner) => NumbersAscend(decoded, partner_number)
          /\ Precedes(partner, s_in) => NumbersAscend(partner_number, decoded)
    /\ (pc = "decoded" /\ InRange(s_in)) =>
          \A b \in PartnersInRange :
              Precedes(s_in, b) =>
                  NumbersAscend(decoded, version_string_to_number(b, overflow_checks))

\* "V7.94a" has been compared with "V7.95", and lies above "V7.94"
C3_Witness ==
    /\ pc = "compared"
    /\ s_in = <<86, 55, 46, 57, 52, 97>>
    /\ decoded = Some(79401)
    /\ partner = <<86, 55, 46, 57, 53>>
    /\ partner_number = Some(79500)
    /\ Precedes(s_in, partner)
    /\ Precedes(<<86, 55, 46, 57, 52>>, s_in)
    /\ version_string_to_number(<<86, 55, 46, 57, 52>>, overflow_checks) = Some(79400)

\* C4: an input that is not, as a whole, a string of the grammar decodes
\* to no value.
C4_MalformedRejected ==
    (pc \in {"decoded", "encoded", "redecoded"} /\ ~MatchesGrammar(s_in)) => decoded = None

\* the digits of n after the major digit and the two minor digits, as a number
PatchPart(n) ==
    LET d == to_string(n)
        r == parse_i32(SubSeq(d, 4, Len(d)))
    IN  IF r.kind = "Ok" THEN r.val ELSE 0

\* C5: encoding a code whose patch part exceeds 26 fails and returns no
\* string; patch 0 gives no suffix, patch n in 1..26 the n-th letter.
C5_EncodeRangeChecked ==
    (pc = "num_encoded" /\ n_in >= 100) =>
        LET p == PatchPart(n_in) IN
        /\ p > 26 => encoded.kind = "Panic"
        /\ p = 0 => encoded.kind = "Ok" /\ Len(encoded.val) = 5
        /\ p \in 1..26 =>
              /\ encoded.kind = "Ok" /\ Len(encoded.val) = 6
              /\ encoded.val[6] = ASCII.a + p - 1

-----------------------------------------------------------------------------
(* The probe's claim *)

RECURSIVE FirstUsable(_, _)
\* the result of the first file that both loads and resolves the symbol
FirstUsable(files, i) ==
    IF i > Len(files) THEN None
    ELSE IF files[i].loads /\ files[i].symbol THEN Some(files[i].ret)
    ELSE FirstUsable(files, i + 1)

\* C6: the probe returns the version of the first matched file that both loads
\* and resolves the symbol, skipping every file that fails either, and finds
\* nothing exactly when the OS has no pattern or no matched file is usable.
C6_FirstUsableFile ==
    pc = "returned" =>
        current_version = IF probe_system \in {"Linux", "Windows", "MacOSX"}
                          THEN FirstUsable(fs, 1) ELSE None

-----------------------------------------------------------------------------
(* The resolver's claims *)

\* the documented table of defaults
TableDefault(os) ==
    CASE os = "Linux"   -> [package_type |-> "deb", package_install_cmd |-> "sudo dpkg -i"]
      [] os = "MacOSX"  -> [package_type |-> "pkg",
                            package_install_cmd |-> "sudo installer -target / -pkg"]
      [] os = "Windows" -> [package_type |-> "exe", package_install_cmd |-> ""]

\* the OS the resolver is asked about is one of the table's
InTable ==
    \/ args.system \in {"Linux", "MacOSX", "Windows"}
    \/ args.system = "auto" /\ host.os \in {"linux", "macos", "windows"}

\* C7: an explicit system override of Linux, MacOSX or Windows succeeds with
\* that OS family and its table defaults on any host, and the resolver fails
\* exactly when the OS is outside the table.
C7_OsTable ==
    pc = "returned" =>
        /\ args.system \in {"Linux", "MacOSX", "Windows"} =>
              /\ system_info.kind = "Ok"
              /\ system_info.val.system = args.system
              /\ args.package_type = "auto" =>
                    system_info.val.package_type = TableDefault(args.system).package_type
              /\ args.package_install_cmd = "auto" =>
                    system_info.val.package_install_cmd =
                        TableDefault(args.system).package_install_cmd
        /\ system_info.kind = "Err" <=> ~InTable

\* the synonyms as the claim states them
Synonym(arch) ==
    CASE arch = "aarch64" -> "arm64"
      [] arch = "amd64"   -> "x86_64"
      [] OTHER            -> arch

\* the synonyms whatever the case of their letters
SynonymAnyCase(arch) ==
    CASE arch \in {"aarch64", "AArch64"} -> "arm64"
      [] arch \in {"amd64", "AMD64"}     -> "x86_64"
      [] OTHER                           -> arch

C9_OverridePrecedence ==
    (pc = "returned" /\ system_info.kind = "Ok") =>
        LET d == TableDefault(system_info.val.system) IN
        /\ system_info.val.package_type =
              IF args.package_type # "auto" THEN args.package_type ELSE d.package_type
        /\ system_info.val.package_install_cmd =
              IF args.package_install_cmd # "auto" THEN args.package_install_cmd
              ELSE d.package_install_cmd

-----------------------------------------------------------------------------
(* The claims about a run of main *)

Began(step) == \E i \in 1..Len(events) : events[i] = step

\* C1: once the versions are compared, an installed version at or above the
\* latest ends the run successfully as "already on latest" with no download
\* request and no installer, and a missing or older one reaches the download.
C1_UpdateDecision ==
    Began("compare") =>
        IF current_version.kind = "Some" /\ current_version.val >= latest_version_number.val
        THEN /\ pc = "exit"
             /\ result = Ok("Already on latest version.")
             /\ ~Began("download") /\ ~Began("install")
        ELSE pc = "download" \/ Began("download")

StepOrder == <<"resolve", "fetch", "parse", "probe", "compare", "download", "install">>

====
